---- MODULE Spec2Model ----
(***************************************************************************)
(* Inventory / transaction consistency engine of the retail POS system:    *)
(* SalesService (pos_app/services_sales.py) and InventoryService           *)
(* (pos_app/services_inventory.py) over the tables of pos_app/models.py,   *)
(* run by concurrent request handlers against PostgreSQL (settings_base)   *)
(* at its default READ COMMITTED isolation.                                *)
(*                                                                         *)
(* Every service method is wrapped in @transaction.atomic.  A handler's    *)
(* writes are kept in its own write set (pending) and reach the committed  *)
(* tables when the method returns; an exception discards them.  A method   *)
(* is cut into steps at the points where it reads shared state or may      *)
(* block on a row lock (select_for_update); code that follows the last     *)
(* such point only writes values the handler already holds, so it is part  *)
(* of that last step, commit included.                                     *)
(*                                                                         *)
(* Two handlers that lock the same rows in opposite orders can wait for    *)
(* each other; PostgreSQL's deadlock detector then aborts one of them.     *)
(*                                                                         *)
(* Beside the engine, the views of pos_app/views.py that write inventory   *)
(* (process_sale, add_inventory, stock_take, approve_transfer) run in      *)
(* autocommit mode, one step per read and per save, and the M-Pesa views   *)
(* (mpesa/views.py) keep the MpesaPayment rows.  The audit table and the   *)
(* mail server are collaborators that may fail.                            *)
(*                                                                         *)
(* Money: a price is an integer number of mills (1/1000); computed amounts *)
(* are exact rationals, as decimal.Decimal keeps them; a stored column is  *)
(* an integer number of cents.                                             *)
(***************************************************************************)
EXTENDS Integers, Sequences, FiniteSets, TLC

\* ------------------------------------------------------------------ bounds
MaxQty == 2            \* largest quantity of a cart line, adjustment or transfer
MaxCalls == 3          \* service calls started in one behaviour of Spec
MaxSaleCalls == 2      \* ... of SpecSales
MaxTransferCalls == 5  \* ... of SpecTransfers
MaxMoneyCalls == 2     \* ... of SpecMoney
MaxTransfers == 1       \* transfer requests created in one behaviour
MaxFaultCalls == 2     \* service calls started in one behaviour of SpecFaults
MaxPaymentCalls == 4   \* sales, pushes and callbacks in one behaviour of SpecPayments
MaxReportCalls == 2    \* service calls started in one behaviour of SpecReports
MaxViewSaleCalls == 2  \* requests started in one behaviour of SpecViewSale
MaxViewCalls == 3      \* requests started in one behaviour of SpecViews
MaxDeadlockCalls == 2  \* service calls started in one behaviour of SpecDeadlock

\* ------------------------------------------------------- program constants
VAT_RATE == 16                 \* settings.VAT_RATE, percent
DEFAULT_COMMISSION_RATE == 500
\* Inventory.reorder_level: default=10
DEFAULT_REORDER_LEVEL == 10 \* User.commission_rate default 5.00, in 1/100 percent

Products == {"p1", "p2"}
Stores == {"s1", "s2"}
Users == {"u1"}
Procs == {"r1", "r2"}
Keys == Products \X Stores
NoProc == "none"
NoUser == "nobody"


VARIABLES
  inventory,         \* Inventory rows that exist: (product, store) -> quantity
  reorder_level,     \* Inventory.reorder_level of the rows that exist
  transfers,         \* InventoryTransfer rows, by id 1..Len
  transactions,      \* Transaction rows, by id 1..Len
  transaction_items, \* TransactionItem rows
  audit_log,         \* AuditLog rows, oldest first
  total_commission,  \* User.total_commission of each user, cents
  lockedBy,          \* the handler holding the row lock of each inventory key
  pc,                \* where each request handler is
  call,              \* the running call of each handler: arguments and loaded objects
  pending,           \* uncommitted writes of each handler's atomic block
  outcome,           \* how each handler's last call ended
  calls_left,        \* calls that may still be started
  clock,             \* timezone.now(), a logical time
  applied,           \* history: per key, the sum of the deltas of the calls that succeeded,
                     \*          added to the initial quantity
  earned,            \* history: per user, the sum of the commissions of the sales that succeeded
  decided,           \* history: per transfer, the approve/reject calls that succeeded
  refused,           \* history: the pending transfers an approval of which found too little stock
  moved,             \* history: per transfer, the times its quantity was debited and credited
  payments,          \* MpesaPayment rows, by id 1..Len
  outbox,            \* the mails send_mail has delivered
  faults             \* the collaborators that fail in this behaviour

tables == <<inventory, reorder_level, transfers, transactions, transaction_items, audit_log,
            total_commission, payments, outbox, faults>>
history == <<applied, earned, decided, refused, moved>>
vars == <<inventory, reorder_level, transfers, transactions, transaction_items, audit_log,
          total_commission, lockedBy, pc, call, pending, outcome, calls_left, clock,
          applied, earned, decided, refused, moved, payments, outbox, faults>>

\* ------------------------------------------------------------ exact decimals
\* decimal.Decimal values are exact rationals [num, den], den > 0, in lowest terms.
RECURSIVE GCD(_, _)
GCD(a, b) == IF b = 0 THEN a ELSE GCD(b, a % b)

Abs(x) == IF x < 0 THEN -x ELSE x

Rat(n, d) ==
  LET g == GCD(Abs(n), d)
  IN  IF n = 0 THEN [num |-> 0, den |-> 1] ELSE [num |-> n \div g, den |-> d \div g]

RatAdd(a, b) ==
  LET g == GCD(a.den, b.den)
  IN  Rat(a.num * (b.den \div g) + b.num * (a.den \div g), (a.den \div g) * b.den)

RatMul(a, b) ==
  LET g1 == GCD(Abs(a.num), b.den)
      g2 == GCD(Abs(b.num), a.den)
  IN  Rat((a.num \div g1) * (b.num \div g2), (a.den \div g2) * (b.den \div g1))

\* A return booked with the sign of a sale.
RatSame(a) == a

RatNeg(a) == [num |-> -a.num, den |-> a.den]

\* Decimal(str(x)) of a price given in mills, and of a rate given in 1/100 percent
DecimalOfMills(m) == Rat(m, 1000)
DecimalOfRate(r) == Rat(r, 100)

\* What a DecimalField(max_digits=10, decimal_places=2) column holds after a
\* value is written to it, in cents: PostgreSQL numeric(10,2) rounds to two
\* fractional digits, ties away from zero.
DecimalField(v) ==
  LET n == Abs(v.num) * 100
      q == (2 * n + v.den) \div (2 * v.den)
  IN  IF v.num < 0 THEN -q ELSE q

\* A sale without VAT.
vat_free(subtotal) == Rat(0, 1)

\* SalesService.calculate_vat
calculate_vat(subtotal) ==
  RatMul(RatMul(subtotal, Rat(VAT_RATE, 1)), Rat(1, 100))

\* SalesService.calculate_commission
calculate_commission(total, commission_rate) ==
  RatMul(RatMul(total, DecimalOfRate(commission_rate)), Rat(1, 100))

\* subtotal += Decimal(str(item['price'])) * Decimal(str(item['quantity']))
RECURSIVE Subtotal(_)
Subtotal(items) ==
  IF items = << >> THEN Rat(0, 1)
  ELSE RatAdd(Subtotal(Tail(items)),
              RatMul(DecimalOfMills(Head(items).price), Rat(Head(items).quantity, 1)))



\* --------------------------------------------------------------- outcomes
Ok == "ok"
IntegrityError == "IntegrityError: check constraint inventory.quantity >= 0"
DoesNotExist == "Inventory.DoesNotExist"
ValueErrorNegative == "ValueError: Inventory quantity cannot be negative"
ValueErrorInsufficientSource == "ValueError: Insufficient inventory at source store"
ValueErrorInsufficient == "ValueError: Insufficient inventory"
ValueErrorNotPending == "ValueError: Transfer is not pending"
DatabaseError == "DatabaseError: AuditLog.objects.create"
SMTPException == "SMTPException"
NameError == "NameError: name 'models' is not defined"
OperationalError == "OperationalError: deadlock detected"
\* the error responses and messages of the views
InvalidQuantity == "400: Invalid quantity"
InsufficientInventory == "400: Insufficient inventory"
ProductDoesNotExist == "400: Product does not exist"
InventoryDoesNotExist == "400: Inventory does not exist"
TransferNotPendingMessage == "Transfer is not pending."
SourceInsufficientMessage == "Insufficient inventory in source store."
SourceNotFoundMessage == "Source inventory not found."
InventoryNotFoundMessage == "Inventory item not found."

\* ----------------------------------------------------------- the database
NoRows == [k \in {} |-> 0]
NoCall == [op |-> "none"]
NoPending == [inv |-> NoRows, txn |-> << >>, items |-> << >>]

Write(f, k, v) == [x \in DOMAIN f \cup {k} |-> IF x = k THEN v ELSE f[x]]
Apply(f, g) == [x \in DOMAIN f \cup DOMAIN g |-> IF x \in DOMAIN g THEN g[x] ELSE f[x]]

DB == [inventory |-> inventory, transactions |-> transactions,
       transaction_items |-> transaction_items]

\* The tables with the writes of an atomic block in them.
Writes(db, buf) ==
  [inventory |-> Apply(db.inventory, buf.inv),
   transactions |-> db.transactions \o buf.txn,
   transaction_items |->
     db.transaction_items \o
       [i \in 1 .. Len(buf.items) |->
          [transaction |-> Len(db.transactions) + 1] @@ buf.items[i]]]

\* A commit that writes the new transaction over the stored ones.
commit_overwrites(db, buf) ==
  [Writes(db, buf) EXCEPT !.transactions = [n \in DOMAIN @ |-> @[Len(@)]]]

\* @transaction.atomic, leaving the block by return: the writes are committed.
atomic_commit(db, buf) == Writes(db, buf)

\* A block that is not atomic: what was written before the exception stays.
not_atomic(db, buf) == Writes(db, buf)

\* @transaction.atomic, leaving the block by an exception: the writes are undone.
atomic_rollback(db, buf) == db

\* A column without the check.
unchecked_quantity(q) == TRUE

\* PositiveIntegerField: the column carries CHECK (quantity >= 0); a save of
\* a negative value raises IntegrityError.
PositiveIntegerField(q) == q >= 0

\* A plain read: the row is read whoever holds it.
no_select_for_update(p, k) == FALSE

\* select_for_update(): the statement waits while another transaction holds
\* the row (or is inserting the row of that key).
Blocked(p, k) == lockedBy[k] \notin {p, NoProc}

\* The rows a handler sees: the committed ones and its own writes.
Visible(p, k) == k \in DOMAIN inventory \cup DOMAIN pending[p].inv
\* A read that misses the handler's own uncommitted write.
read_committed(p, k) == inventory[k]

Read(p, k) == IF k \in DOMAIN pending[p].inv THEN pending[p].inv[k] ELSE inventory[k]

Release(p) == [k \in Keys |-> IF lockedBy[k] = p THEN NoProc ELSE lockedBy[k]]

\* The quantity of the cart's lines that fall on row k of the store.
RECURSIVE CartQty(_, _, _)
CartQty(items, store, k) ==
  IF items = << >> THEN 0
  ELSE CartQty(Tail(items), store, k)
       + (IF <<Head(items).product_id, store>> = k THEN Head(items).quantity ELSE 0)

AuditLog(user, action, model_name) ==
  [user |-> user, action |-> action, model_name |-> model_name]

\* An operation that leaves no trace.
AuditLog_skipped(log, entry) == log

\* AuditLog.objects.create(...), inside the atomic block of the operation
AuditLog_create(log, entry) == Append(log, entry)

\* Inventory.reorder_level after a commit: save() writes back the level the
\* handler loaded under the row lock, and a row made by get_or_create takes
\* the field's default.
Levels(rows) ==
  [k \in DOMAIN rows |->
     IF k \in DOMAIN reorder_level THEN reorder_level[k] ELSE DEFAULT_REORDER_LEVEL]

\* The handler returns; its locks are released with the end of the transaction.
Return(p, result) ==
  /\ pc' = [pc EXCEPT ![p] = "idle"]
  /\ call' = [call EXCEPT ![p] = NoCall]
  /\ pending' = [pending EXCEPT ![p] = NoPending]
  /\ lockedBy' = Release(p)
  /\ outcome' = [outcome EXCEPT ![p] = result]
  /\ UNCHANGED <<payments, faults>>

\* except Exception: logger.error(...); raise
Raise(p, error, buf) ==
  LET db == atomic_rollback(DB, buf)
  IN  /\ Return(p, error)
      /\ inventory' = db.inventory
      /\ reorder_level' = Levels(db.inventory)
      /\ transactions' = db.transactions
      /\ transaction_items' = db.transaction_items
      /\ UNCHANGED <<transfers, audit_log, total_commission, outbox, clock,
                     applied, earned, decided, moved>>

\* The database a behaviour starts from, the number of calls it may make, and
\* the collaborators that fail in it.
InitFaulty(inventory0, n, failing) ==
  /\ inventory = inventory0
  /\ reorder_level = [k \in DOMAIN inventory0 |-> 2 * DEFAULT_REORDER_LEVEL]
  /\ transfers = << >>
  /\ transactions = << >>
  /\ transaction_items = << >>
  /\ audit_log = << >>
  /\ total_commission = [u \in Users |-> 0]
  /\ lockedBy = [k \in Keys |-> NoProc]
  /\ pc = [p \in Procs |-> "idle"]
  /\ call = [p \in Procs |-> NoCall]
  /\ pending = [p \in Procs |-> NoPending]
  /\ outcome = [p \in Procs |-> "none"]
  /\ calls_left = n
  /\ clock = 0
  /\ applied = [k \in Keys |-> IF k \in DOMAIN inventory0 THEN inventory0[k] ELSE 0]
  /\ earned = [u \in Users |-> 0]
  /\ decided = [t \in 1 .. MaxTransfers |-> 0]
  /\ refused = {}
  /\ moved = [t \in 1 .. MaxTransfers |-> 0]
  /\ payments = << >>
  /\ outbox = 0
  /\ faults = failing

\* The database a behaviour starts from when every collaborator works.
InitWith(inventory0, n) == InitFaulty(inventory0, n, {})

\* A handler takes a request.
Start(p) ==
  /\ pc[p] = "idle"
  /\ calls_left > 0
  /\ calls_left' = calls_left - 1

\* ------------------------------------------------------------ collaborators
\* What can fail besides the inventory tables: the INSERT into the audit
\* table, and the mail server.
Collaborators == {"audit", "mail"}

\* AuditLog.objects.create(...) raises
AuditLog_fails == "audit" \in faults

\* A notification that lets the failure of the mail server out.
notification_raises(failed) == failed

\* try: ... send_mail(..., fail_silently=True) except Exception: logger.error(...):
\* whether an exception leaves the notification when the mail server fails
notification_error(failed) == FALSE

\* send_mail(subject, message, from, recipients, fail_silently=True), called
\* when there are recipients
send_mail(box, recipients) ==
  IF recipients = {} \/ "mail" \in faults THEN box ELSE box + 1

\* getattr(settings, 'ADMIN_EMAIL', None)
ADMIN_EMAIL == {"admin@pos-system.com"}

\* User.objects.filter(role__in=['director', 'admin']).values_list('email'):
\* every user is a director with an address
directors == Users

\* Inventory.is_low_stock()
is_low_stock(quantity, level) == quantity <= level

\* ---------------------------------------------------------- InventoryService
\* A row that is created with stock in it.
created_with_stock(rows, k) == IF k \in DOMAIN rows THEN rows[k] ELSE 1

\* lines 33-37: get_or_create(product, store, defaults={'quantity': 0}), the
\* quantity of the row it returns
get_or_create(rows, k) == IF k \in DOMAIN rows THEN rows[k] ELSE 0

\* An adjustment that is never refused.
never_negative(quantity) == FALSE

\* line 42: if inventory.quantity < 0
quantity_negative(quantity) == quantity < 0

adjust_inventory(p, product, store, quantity_change, user) ==
  LET k == <<product, store>>
      created == k \notin DOMAIN inventory
      old_quantity == get_or_create(inventory, k)
      buf == [NoPending EXCEPT !.inv = IF created THEN (k :> old_quantity) ELSE NoRows]
      quantity == old_quantity + quantity_change
  IN  /\ Start(p)
      /\ ~Blocked(p, k)
      /\ UNCHANGED refused
      /\ IF quantity_negative(quantity)
         THEN Raise(p, ValueErrorNegative, buf)
         ELSE IF ~PositiveIntegerField(quantity)
         THEN Raise(p, IntegrityError, buf)
         ELSE IF AuditLog_fails
         THEN Raise(p, DatabaseError, buf)
         ELSE LET db == atomic_commit(DB, [buf EXCEPT !.inv = Write(@, k, quantity)])
                  low == is_low_stock(quantity, Levels(db.inventory)[k])
              IN  IF low /\ notification_error("mail" \in faults)
                  THEN Raise(p, SMTPException, buf)
                  ELSE /\ Return(p, Ok)
                       /\ inventory' = db.inventory
                       /\ reorder_level' = Levels(db.inventory)
                       /\ audit_log' = AuditLog_create(audit_log,
                                                      AuditLog(user, "update", "Inventory"))
                       /\ outbox' = IF low THEN send_mail(outbox, ADMIN_EMAIL) ELSE outbox
                       /\ applied' = [applied EXCEPT ![k] = @ + quantity_change]
                       /\ UNCHANGED <<transfers, transactions, transaction_items,
                                      total_commission, clock, earned, decided, moved>>

\* A request that does not look at the stock.
no_precheck(available, quantity) == FALSE

\* line 87: if inventory.quantity < quantity
insufficient_inventory(available, quantity) == available < quantity

\* A transfer that is created already decided.
InventoryTransfer_approved(product, from_store, to_store, quantity, requested_by) ==
  [product |-> product, from_store |-> from_store, to_store |-> to_store,
   quantity |-> quantity, status |-> "approved", requested_by |-> requested_by,
   approved_by |-> requested_by, approval_date |-> 0]

\* lines 91-98: InventoryTransfer.objects.create(..., status='pending', requested_by=user)
InventoryTransfer(product, from_store, to_store, quantity, requested_by) ==
  [product |-> product, from_store |-> from_store, to_store |-> to_store,
   quantity |-> quantity, status |-> "pending", requested_by |-> requested_by,
   approved_by |-> NoUser, approval_date |-> 0]

request_transfer(p, product, from_store, to_store, quantity, user) ==
  LET k == <<product, from_store>>
  IN  /\ Start(p)
      /\ Len(transfers) < MaxTransfers
      /\ UNCHANGED refused
      /\ IF k \notin DOMAIN inventory
         THEN Raise(p, DoesNotExist, NoPending)
         ELSE IF insufficient_inventory(inventory[k], quantity)
         THEN Raise(p, ValueErrorInsufficient, NoPending)
         ELSE IF AuditLog_fails
         THEN Raise(p, DatabaseError, NoPending)
         ELSE IF notification_error("mail" \in faults)
         THEN Raise(p, SMTPException, NoPending)
         ELSE /\ Return(p, Ok)
              /\ transfers' = Append(transfers,
                   InventoryTransfer(product, from_store, to_store, quantity, user))
              /\ audit_log' = AuditLog_create(audit_log, AuditLog(user, "transfer", "InventoryTransfer"))
              /\ outbox' = send_mail(outbox, directors)
              /\ UNCHANGED <<inventory, reorder_level, transactions, transaction_items,
                             total_commission,
                             clock, applied, earned, decided, moved>>

\* The caller loads the transfer and hands the object to approve_transfer.
approve_transfer_begin(p, id, user) ==
  /\ Start(p)
  /\ id \in 1 .. Len(transfers)
  /\ pc' = [pc EXCEPT ![p] = "approve_transfer"]
  /\ call' = [call EXCEPT ![p] =
       [op |-> "approve_transfer", id |-> id, transfer |-> transfers[id], user |-> user]]
  /\ outcome' = [outcome EXCEPT ![p] = "none"]
  /\ UNCHANGED <<tables, lockedBy, pending, clock, history>>

\* The approval without the second look at the stock.
no_recheck(available, quantity) == FALSE

\* line 140: if from_inventory.quantity < transfer.quantity
insufficient_at_source(available, quantity) == available < quantity

\* A credit that is not made.
no_credit(quantity, amount) == quantity

\* line 151: to_inventory.quantity += transfer.quantity
credit(quantity, amount) == quantity + amount

\* lines 131-144: the status check on the loaded object, the locked read of the
\* source row, the stock check and the debit
approve_transfer_debit(p) ==
  LET c == call[p]
      transfer == c.transfer
      k == <<transfer.product, transfer.from_store>>
  IN  /\ pc[p] = "approve_transfer"
      /\ UNCHANGED calls_left
      /\ IF transfer.status # "pending"
         THEN Raise(p, ValueErrorNotPending, pending[p]) /\ UNCHANGED refused
         ELSE IF ~Visible(p, k)
         THEN Raise(p, DoesNotExist, pending[p]) /\ UNCHANGED refused
         ELSE /\ ~Blocked(p, k)
              /\ IF insufficient_at_source(Read(p, k), transfer.quantity)
                 THEN /\ Raise(p, ValueErrorInsufficientSource, pending[p])
                      /\ refused' = IF transfers[c.id].status = "pending"
                                    THEN refused \cup {c.id} ELSE refused
                 ELSE IF ~PositiveIntegerField(Read(p, k) - transfer.quantity)
                 THEN Raise(p, IntegrityError, pending[p]) /\ UNCHANGED refused
                 ELSE /\ lockedBy' = [lockedBy EXCEPT ![k] = p]
                      /\ pending' = [pending EXCEPT ![p].inv =
                                       Write(@, k, Read(p, k) - transfer.quantity)]
                      /\ pc' = [pc EXCEPT ![p] = "approve_transfer_credit"]
                      /\ UNCHANGED <<tables, call, outcome, clock, history>>

\* lines 146-170: the locked get_or_create of the destination row, the credit,
\* transfer.save(), the audit entry, and the commit
approve_transfer_credit(p) ==
  LET c == call[p]
      transfer == c.transfer
      from == <<transfer.product, transfer.from_store>>
      k == <<transfer.product, transfer.to_store>>
      quantity == credit(IF Visible(p, k) THEN Read(p, k) ELSE 0, transfer.quantity)
      db == atomic_commit(DB, [pending[p] EXCEPT !.inv = Write(@, k, quantity)])
  IN  /\ pc[p] = "approve_transfer_credit"
      /\ UNCHANGED <<calls_left, refused>>
      /\ ~Blocked(p, k)
      /\ IF ~PositiveIntegerField(quantity)
         THEN Raise(p, IntegrityError, pending[p])
         ELSE IF AuditLog_fails
         THEN Raise(p, DatabaseError, pending[p])
         ELSE /\ Return(p, Ok)
              /\ inventory' = db.inventory
              /\ reorder_level' = Levels(db.inventory)
              /\ transfers' = [transfers EXCEPT ![c.id] =
                   [transfer EXCEPT !.status = "approved", !.approved_by = c.user,
                                    !.approval_date = clock + 1]]
              /\ clock' = clock + 1
              /\ audit_log' = AuditLog_create(audit_log, AuditLog(c.user, "approval", "InventoryTransfer"))
              /\ applied' = [x \in Keys |->
                   applied[x] - (IF x = from THEN transfer.quantity ELSE 0)
                              + (IF x = k THEN transfer.quantity ELSE 0)]
              /\ decided' = [decided EXCEPT ![c.id] = @ + 1]
              /\ moved' = [moved EXCEPT ![c.id] = @ + 1]
              /\ UNCHANGED <<transactions, transaction_items, total_commission, outbox, earned>>

\* The caller loads the transfer and hands the object to reject_transfer.
reject_transfer_begin(p, id, user) ==
  /\ Start(p)
  /\ id \in 1 .. Len(transfers)
  /\ pc' = [pc EXCEPT ![p] = "reject_transfer"]
  /\ call' = [call EXCEPT ![p] =
       [op |-> "reject_transfer", id |-> id, transfer |-> transfers[id], user |-> user]]
  /\ outcome' = [outcome EXCEPT ![p] = "none"]
  /\ UNCHANGED <<tables, lockedBy, pending, clock, history>>

\* A rejection that records neither the new status nor who made it.
not_rejected(transfer, user, now) == [transfer EXCEPT !.approval_date = now]

\* lines 191-193: the fields reject_transfer sets on the object it was handed
rejected(transfer, user, now) ==
  [transfer EXCEPT !.status = "rejected", !.approved_by = user, !.approval_date = now]

reject_transfer(p) ==
  LET c == call[p]
      transfer == c.transfer
  IN  /\ pc[p] = "reject_transfer"
      /\ UNCHANGED <<calls_left, refused>>
      /\ IF transfer.status # "pending"
         THEN Raise(p, ValueErrorNotPending, pending[p])
         ELSE IF AuditLog_fails
         THEN Raise(p, DatabaseError, pending[p])
         ELSE /\ Return(p, Ok)
              /\ transfers' = [transfers EXCEPT ![c.id] = rejected(transfer, c.user, clock + 1)]
              /\ clock' = clock + 1
              /\ audit_log' = AuditLog_create(audit_log, AuditLog(c.user, "rejection", "InventoryTransfer"))
              /\ decided' = [decided EXCEPT ![c.id] = @ + 1]
              /\ UNCHANGED <<inventory, reorder_level, transactions, transaction_items,
                             total_commission, outbox,
                             applied, earned, moved>>


\* -------------------------------------------------------------- SalesService
\* User.commission_rate of every user: the field's default
commission_rate(user) == DEFAULT_COMMISSION_RATE

\* lines 45-52: the totals of a sale
SaleTotals(user, items) ==
  LET subtotal == Subtotal(items)
      vat_amount == calculate_vat(subtotal)
      total_amount == RatAdd(subtotal, vat_amount)
      commission == calculate_commission(total_amount, commission_rate(user))
  IN  [subtotal |-> subtotal, vat_amount |-> vat_amount,
       total_amount |-> total_amount, commission |-> commission]

\* lines 125-142: the totals of a return
ReturnTotals(items) ==
  LET subtotal == Subtotal(items)
      vat_amount == calculate_vat(subtotal)
      total_amount == RatAdd(subtotal, vat_amount)
  IN  [subtotal |-> RatNeg(subtotal), vat_amount |-> RatNeg(vat_amount),
       total_amount |-> RatNeg(total_amount), commission |-> Rat(0, 1)]

\* Transaction.objects.create(...): each amount goes into its own column
TransactionRow(type, user, store, t) ==
  [transaction_type |-> type, user |-> user, store |-> store,
   subtotal |-> DecimalField(t.subtotal), vat_amount |-> DecimalField(t.vat_amount),
   total_amount |-> DecimalField(t.total_amount), commission |-> DecimalField(t.commission)]

\* TransactionItem.objects.create(...)
TransactionItemRow(item) ==
  [product |-> item.product_id, quantity |-> item.quantity,
   unit_price |-> DecimalField(DecimalOfMills(item.price)),
   total_price |-> DecimalField(RatMul(DecimalOfMills(item.price), Rat(item.quantity, 1)))]

\* The caller holds the user object it loaded; lines 45-64
create_sale_begin(p, user, store, items) ==
  LET t == SaleTotals(user, items)
  IN  /\ Start(p)
      /\ pc' = [pc EXCEPT ![p] = "create_sale"]
      /\ call' = [call EXCEPT ![p] =
           [op |-> "create_sale", user |-> user, store |-> store, items |-> items,
            idx |-> 1, user_total_commission |-> total_commission[user],
            commission |-> t.commission]]
      /\ pending' = [pending EXCEPT ![p].txn = <<TransactionRow("sale", user, store, t)>>]
      /\ outcome' = [outcome EXCEPT ![p] = "none"]
      /\ UNCHANGED <<tables, lockedBy, clock, history>>

\* lines 67-82, one turn of the loop; after the last line, lines 84-99 and the commit
create_sale_item(p) ==
  LET c == call[p]
      item == c.items[c.idx]
      k == <<item.product_id, c.store>>
      buf == [pending[p] EXCEPT !.items = Append(@, TransactionItemRow(item))]
  IN  /\ pc[p] = "create_sale"
      /\ UNCHANGED <<calls_left, refused>>
      /\ IF ~Visible(p, k)
         THEN Raise(p, DoesNotExist, buf)
         ELSE /\ ~Blocked(p, k)
              /\ LET quantity == Read(p, k) - item.quantity
                     buf2 == [buf EXCEPT !.inv = Write(@, k, quantity)]
                 IN  IF ~PositiveIntegerField(quantity)
                     THEN Raise(p, IntegrityError, buf)
                     ELSE IF c.idx < Len(c.items)
                     THEN /\ lockedBy' = [lockedBy EXCEPT ![k] = p]
                          /\ pending' = [pending EXCEPT ![p] = buf2]
                          /\ call' = [call EXCEPT ![p].idx = @ + 1]
                          /\ UNCHANGED <<tables, pc, outcome, clock, applied, earned, decided, moved>>
                     ELSE IF AuditLog_fails
                     THEN Raise(p, DatabaseError, buf)
                     ELSE LET db == atomic_commit(DB, buf2)
                          IN  /\ Return(p, Ok)
                              /\ inventory' = db.inventory
                              /\ reorder_level' = Levels(db.inventory)
                              /\ transactions' = db.transactions
                              /\ transaction_items' = db.transaction_items
                              /\ total_commission' = [total_commission EXCEPT ![c.user] =
                                   DecimalField(RatAdd(Rat(c.user_total_commission, 100),
                                                       c.commission))]
                              /\ audit_log' = AuditLog_create(audit_log,
                                                     AuditLog(c.user, "sale", "Transaction"))
                              /\ applied' = [x \in Keys |->
                                               applied[x] - CartQty(c.items, c.store, x)]
                              /\ earned' = [earned EXCEPT ![c.user] =
                                              @ + buf2.txn[1].commission]
                              /\ UNCHANGED <<transfers, outbox, clock, decided, moved>>

\* The caller loads the original transaction; lines 125-143
process_return_begin(p, original_transaction, user, items) ==
  /\ Start(p)
  /\ original_transaction \in 1 .. Len(transactions)
  /\ LET store == transactions[original_transaction].store
     IN  /\ call' = [call EXCEPT ![p] =
                [op |-> "process_return", user |-> user, store |-> store,
                 items |-> items, idx |-> 1]]
         /\ pending' = [pending EXCEPT ![p].txn =
                <<TransactionRow("return", user, store, ReturnTotals(items))>>]
  /\ pc' = [pc EXCEPT ![p] = "process_return"]
  /\ outcome' = [outcome EXCEPT ![p] = "none"]
  /\ UNCHANGED <<tables, lockedBy, clock, history>>

\* lines 146-161, one turn of the loop; after the last line, lines 163-174 and the commit
process_return_item(p) ==
  LET c == call[p]
      item == c.items[c.idx]
      k == <<item.product_id, c.store>>
      buf == [pending[p] EXCEPT !.items = Append(@, TransactionItemRow(item))]
  IN  /\ pc[p] = "process_return"
      /\ UNCHANGED <<calls_left, refused>>
      /\ IF ~Visible(p, k)
         THEN Raise(p, DoesNotExist, buf)
         ELSE /\ ~Blocked(p, k)
              /\ LET quantity == Read(p, k) + item.quantity
                     buf2 == [buf EXCEPT !.inv = Write(@, k, quantity)]
                 IN  IF ~PositiveIntegerField(quantity)
                     THEN Raise(p, IntegrityError, buf)
                     ELSE IF c.idx < Len(c.items)
                     THEN /\ lockedBy' = [lockedBy EXCEPT ![k] = p]
                          /\ pending' = [pending EXCEPT ![p] = buf2]
                          /\ call' = [call EXCEPT ![p].idx = @ + 1]
                          /\ UNCHANGED <<tables, pc, outcome, clock, applied, earned, decided, moved>>
                     ELSE IF AuditLog_fails
                     THEN Raise(p, DatabaseError, buf)
                     ELSE LET db == atomic_commit(DB, buf2)
                          IN  /\ Return(p, Ok)
                              /\ inventory' = db.inventory
                              /\ reorder_level' = Levels(db.inventory)
                              /\ transactions' = db.transactions
                              /\ transaction_items' = db.transaction_items
                              /\ audit_log' = AuditLog_create(audit_log,
                                                     AuditLog(c.user, "sale", "Transaction"))
                              /\ applied' = [x \in Keys |->
                                               applied[x] + CartQty(c.items, c.store, x)]
                              /\ UNCHANGED <<transfers, total_commission, outbox, clock,
                                             earned, decided, moved>>

\* ----------------------------------------------------------------- deadlock
\* The row the next select_for_update() of a running handler locks.
Wanted(p) ==
  LET c == call[p]
  IN  IF pc[p] \in {"create_sale", "process_return"}
      THEN <<c.items[c.idx].product_id, c.store>>
      ELSE IF pc[p] = "approve_transfer"
      THEN <<c.transfer.product, c.transfer.from_store>>
      ELSE <<c.transfer.product, c.transfer.to_store>>

\* The handler has issued a select_for_update() that waits for a row lock.
Waiting(p) ==
  /\ pc[p] \in {"create_sale", "process_return", "approve_transfer",
                "approve_transfer_credit"}
  /\ pc[p] = "approve_transfer" => call[p].transfer.status = "pending"
  /\ pc[p] # "approve_transfer_credit" => Visible(p, Wanted(p))
  /\ Blocked(p, Wanted(p))

\* A database that does not look for deadlocks.
never_detected(p) == FALSE

\* PostgreSQL's deadlock detector: the handler waits for a row held by a
\* handler that waits for a row held by the first
deadlock_cycle(p) ==
  /\ Waiting(p)
  /\ \E q \in Procs \ {p} :
       /\ lockedBy[Wanted(p)] = q
       /\ Waiting(q)
       /\ lockedBy[Wanted(q)] = p

\* The database aborts the waiting statement of one handler of the cycle:
\* select_for_update() raises OperationalError, the atomic block rolls back.
deadlock_detected(p) ==
  /\ deadlock_cycle(p)
  /\ Raise(p, OperationalError, pending[p])
  /\ UNCHANGED <<calls_left, refused>>

\* ------------------------------------------------------------------ inputs
Quantities == 1 .. MaxQty
Deltas == (-MaxQty .. MaxQty) \ {0}
Items(products, prices) == [product_id : products, quantity : Quantities, price : prices]
Carts(items) == {<<i>> : i \in items} \cup {<<i, j>> : i \in items, j \in items}

Prices == {10000}                          \* 10.00
\* one line of any quantity, or two lines of one unit each
AllCarts ==
  {<<i>> : i \in Items(Products, Prices)}
    \cup {c \in Carts(Items(Products, Prices)) : \A n \in DOMAIN c : c[n].quantity = 1}

\* ------------------------------------------------------------ specification
\* The whole engine: two request handlers, every operation.
Init == InitWith(<<"p1", "s1">> :> 1, MaxCalls)

Next ==
  \E p \in Procs :
    \/ \E product \in Products, store \in Stores, d \in Deltas, user \in Users :
         adjust_inventory(p, product, store, d, user)
    \/ \E product \in Products, from_store \in Stores, to_store \in Stores,
          quantity \in Quantities, user \in Users :
         request_transfer(p, product, from_store, to_store, quantity, user)
    \/ \E id \in 1 .. MaxTransfers, user \in Users : approve_transfer_begin(p, id, user)
    \/ approve_transfer_debit(p)
    \/ approve_transfer_credit(p)
    \/ \E id \in 1 .. MaxTransfers, user \in Users : reject_transfer_begin(p, id, user)
    \/ reject_transfer(p)
    \/ \E user \in Users, store \in Stores, items \in AllCarts :
         create_sale_begin(p, user, store, items)
    \/ create_sale_item(p)
    \/ \E t \in 1 .. MaxCalls, user \in Users, items \in AllCarts :
         process_return_begin(p, t, user, items)
    \/ process_return_item(p)
    \/ deadlock_detected(p)

Spec == Init /\ [][Next]_vars

\* Sales only: two handlers selling at the stores, one unit of each product
\* in stock at s1 and nothing at s2.
InitSales == InitWith((<<"p1", "s1">> :> 1) @@ (<<"p2", "s1">> :> 1), MaxSaleCalls)

NextSales ==
  \E p \in Procs :
    \/ \E user \in Users, store \in Stores, items \in AllCarts :
         create_sale_begin(p, user, store, items)
    \/ create_sale_item(p)
    \/ deadlock_detected(p)

SpecSales == InitSales /\ [][NextSales]_vars

\* The race of section 8: the row of p1 at s1 holds one unit, and each of two
\* handlers makes one create_sale call for one unit of it, at any price.
RacePrices == {1000, 2500, 5000, 10000, 20000, 50000}
InitRace == InitWith(<<"p1", "s1">> :> 1, Cardinality(Procs))

NextRace ==
  \E p \in Procs :
    \/ \E user \in Users, price \in RacePrices :
         /\ outcome[p] = "none"
         /\ create_sale_begin(p, user, "s1",
                              <<[product_id |-> "p1", quantity |-> 1, price |-> price]>>)
    \/ create_sale_item(p)

SpecRace == InitRace /\ [][NextRace]_vars

\* Amounts: sales and returns of product p1 at prices of two and of three
\* fractional digits.
MoneyPrices == {13, 995, 9950, 10000}      \* 0.013, 0.995, 9.95, 10.00
MoneyCarts == Carts(Items({"p1"}, MoneyPrices))
InitMoney == InitWith(<<"p1", "s1">> :> 2 * MaxQty, MaxMoneyCalls)

NextMoney ==
  \E p \in Procs :
    \/ \E user \in Users, items \in MoneyCarts : create_sale_begin(p, user, "s1", items)
    \/ create_sale_item(p)
    \/ \E t \in 1 .. MaxMoneyCalls, user \in Users, items \in MoneyCarts :
         process_return_begin(p, t, user, items)
    \/ process_return_item(p)

SpecMoney == InitMoney /\ [][NextMoney]_vars

\* Transfers: product p1 is moved between the stores while its stock is adjusted;
\* the row of p2 at s1 is a row no transfer is about.
InitTransfers == InitWith((<<"p1", "s1">> :> 2) @@ (<<"p2", "s1">> :> 1), MaxTransferCalls)

NextTransfers ==
  \E p \in Procs :
    \/ \E store \in Stores, d \in Deltas, user \in Users :
         adjust_inventory(p, "p1", store, d, user)
    \/ \E from_store \in Stores, to_store \in Stores, quantity \in Quantities, user \in Users :
         request_transfer(p, "p1", from_store, to_store, quantity, user)
    \/ \E id \in 1 .. MaxTransfers, user \in Users : approve_transfer_begin(p, id, user)
    \/ approve_transfer_debit(p)
    \/ approve_transfer_credit(p)
    \/ \E id \in 1 .. MaxTransfers, user \in Users : reject_transfer_begin(p, id, user)
    \/ reject_transfer(p)

SpecTransfers == InitTransfers /\ [][NextTransfers]_vars

\* ------------------------------------------------------------------ claims
\* The error kinds of the specification, as the exceptions that stand for them.
InsufficientStock == {ValueErrorInsufficientSource, ValueErrorInsufficient}
NegativeInventory == {ValueErrorNegative}
TransferNotPending == {ValueErrorNotPending}
ProductOrInventoryNotFound == {DoesNotExist}

Qty(k) == IF k \in DOMAIN inventory THEN inventory[k] ELSE 0

\* C1: in every reachable state, whatever calls were made and however they
\* interleaved, every Inventory row holds a quantity >= 0.
NonNegativeInventory == \A k \in DOMAIN inventory : inventory[k] >= 0

\* C1 witness: a sale asked for more than the row held and was refused, and a
\* row has been emptied.
OverdrawRefused ==
  /\ \E p \in Procs : outcome[p] = IntegrityError
  /\ \E k \in DOMAIN inventory : inventory[k] = 0

\* The line a running create_sale is at asks for more than the row holds.
Overdrawn(p) ==
  LET item == call[p].items[call[p].idx]
      k == <<item.product_id, call[p].store>>
  IN  Visible(p, k) /\ Read(p, k) < item.quantity

\* C2 (as claimed): a create_sale that meets a line asking for more than the
\* stock fails with InsufficientStock and leaves every table as it was.
SaleFailsWithInsufficientStock ==
  [][\A p \in Procs :
       (pc[p] = "create_sale" /\ pc'[p] = "idle" /\ Overdrawn(p))
         => (outcome'[p] \in InsufficientStock /\ tables' = tables)]_vars

\* C2, the part the code keeps: such a call fails and leaves every table as it was.
SaleFailureChangesNothing ==
  [][\A p \in Procs :
       (pc[p] = "create_sale" /\ pc'[p] = "idle" /\ Overdrawn(p))
         => (outcome'[p] # Ok /\ tables' = tables)]_vars

\* C3 (as claimed): when both calls of the race have returned, one succeeded,
\* the other failed with InsufficientStock, and the row holds 0.
RaceOneSaleOneInsufficientStock ==
  (\A p \in Procs : pc[p] = "idle" /\ outcome[p] # "none")
    => /\ \E p \in Procs :
            /\ outcome[p] = Ok
            /\ \A q \in Procs \ {p} : outcome[q] \in InsufficientStock
       /\ inventory[<<"p1", "s1">>] = 0

\* C3, the part the code keeps: one call succeeded, the others failed, the row holds 0.
RaceOneSale ==
  (\A p \in Procs : pc[p] = "idle" /\ outcome[p] # "none")
    => /\ \E p \in Procs :
            /\ outcome[p] = Ok
            /\ \A q \in Procs \ {p} : outcome[q] = IntegrityError
       /\ inventory[<<"p1", "s1">>] = 0

\* C4: for every (product, store), the stored quantity is the initial quantity
\* plus the deltas of exactly the calls that succeeded.
StockIsSumOfDeltas == \A k \in Keys : Qty(k) = applied[k]

\* C4 witness: a transfer out of p1 at s1 was approved and the row is back at
\* its initial quantity, so a second call has added to the same row.
TwoDeltasOnOneRow ==
  /\ \E t \in DOMAIN transfers :
       /\ transfers[t].status = "approved"
       /\ transfers[t].product = "p1"
       /\ transfers[t].from_store = "s1"
       /\ transfers[t].to_store = "s2"
  /\ inventory[<<"p1", "s1">>] = 1

\* C9 (as claimed): a user's total_commission is the sum of the commissions of
\* the sales of that user that succeeded.
CommissionCreditedOnce == \A u \in Users : total_commission[u] = earned[u]

\* C10 (as claimed): every stored Transaction has total_amount = subtotal + vat_amount.
TotalIsSubtotalPlusVat ==
  \A i \in DOMAIN transactions :
    transactions[i].total_amount = transactions[i].subtotal + transactions[i].vat_amount

\* The handler's step is the last one of a successful approve_transfer.
Approves(p) == pc[p] = "approve_transfer_credit" /\ outcome'[p] = Ok

FromKey(t) == <<t.product, t.from_store>>
ToKey(t) == <<t.product, t.to_store>>
QtyAfter(k) == IF k \in DOMAIN inventory' THEN inventory'[k] ELSE 0

\* The transfer becomes approved, with the approver recorded.
MarkedApproved(p) ==
  /\ transfers'[call[p].id].status = "approved"
  /\ transfers'[call[p].id].approved_by = call[p].user
  /\ transfers'[call[p].id].approval_date > 0

\* C5 (as claimed): a successful approve_transfer of quantity q takes q from the
\* source row, adds q to the destination row, created at 0 if absent, changes no
\* other row, and marks the transfer approved.
ApprovalMovesStock ==
  [][\A p \in Procs :
       Approves(p) =>
         LET t == call[p].transfer
         IN  /\ QtyAfter(FromKey(t)) = Qty(FromKey(t)) - t.quantity
             /\ QtyAfter(ToKey(t)) = Qty(ToKey(t)) + t.quantity
             /\ ToKey(t) \in DOMAIN inventory'
             /\ \A k \in Keys \ {FromKey(t), ToKey(t)} :
                  /\ (k \in DOMAIN inventory') = (k \in DOMAIN inventory)
                  /\ QtyAfter(k) = Qty(k)
             /\ MarkedApproved(p)]_vars

\* C5 (amended): the same between two different stores; a transfer from a store
\* to itself is approved without changing the quantity of any row.
ApprovalMovesStockBetweenStores ==
  [][\A p \in Procs :
       Approves(p) =>
         LET t == call[p].transfer
         IN  /\ t.from_store # t.to_store =>
                  /\ QtyAfter(FromKey(t)) = Qty(FromKey(t)) - t.quantity
                  /\ QtyAfter(ToKey(t)) = Qty(ToKey(t)) + t.quantity
             /\ t.from_store = t.to_store => inventory' = inventory
             /\ ToKey(t) \in DOMAIN inventory'
             /\ \A k \in Keys \ {FromKey(t), ToKey(t)} :
                  /\ (k \in DOMAIN inventory') = (k \in DOMAIN inventory)
                  /\ QtyAfter(k) = Qty(k)
             /\ MarkedApproved(p)]_vars

\* C5 witness: a transfer between two stores is approved, the destination row
\* exists, and a row of another product is there.
TransferApprovedBetweenStores ==
  \E t \in DOMAIN transfers :
    /\ transfers[t].status = "approved"
    /\ transfers[t].from_store # transfers[t].to_store
    /\ transfers[t].approved_by \in Users
    /\ ToKey(transfers[t]) \in DOMAIN inventory
    /\ <<"p2", "s1">> \in DOMAIN inventory

\* The approve_transfer a handler is about to run finds a pending transfer
\* whose source row holds less than the transfer quantity.
FindsTooLittle(p) ==
  LET t == call[p].transfer
  IN  /\ pc[p] = "approve_transfer"
      /\ t.status = "pending"
      /\ Visible(p, FromKey(t))
      /\ Read(p, FromKey(t)) < t.quantity

\* ... holds at least the transfer quantity.
FindsEnough(p) ==
  LET t == call[p].transfer
  IN  /\ pc[p] = "approve_transfer"
      /\ t.status = "pending"
      /\ Visible(p, FromKey(t))
      /\ Read(p, FromKey(t)) >= t.quantity

\* C6: an approval that finds too little stock at the source fails with
\* InsufficientStock, changes no Inventory row and leaves the transfer pending;
\* an approval that finds enough goes on to debit, and ends approved.
ApprovalRechecksStock ==
  [][\A p \in Procs :
       /\ (FindsTooLittle(p) /\ pc'[p] # pc[p]) =>
            /\ outcome'[p] \in InsufficientStock
            /\ inventory' = inventory
            /\ transfers' = transfers
       /\ (FindsEnough(p) /\ pc'[p] # pc[p]) =>
            /\ pc'[p] = "approve_transfer_credit"
            /\ pending'[p].inv[FromKey(call[p].transfer)]
                 = Read(p, FromKey(call[p].transfer)) - call[p].transfer.quantity
       /\ (pc[p] = "approve_transfer_credit" /\ pc'[p] # pc[p]) =>
            /\ outcome'[p] = Ok
            /\ transfers'[call[p].id].status = "approved"]_vars

\* C6 witness: a transfer whose approval was once refused for lack of stock,
\* while it was pending, is now approved.
ApprovedAfterRefusal ==
  \E t \in refused : transfers[t].status = "approved" /\ decided[t] = 1

\* C7 (as claimed): of the approve_transfer and reject_transfer calls made on a
\* transfer at most one succeeds.
AtMostOneDecision == \A t \in DOMAIN decided : decided[t] <= 1

\* C8 (as claimed): a transfer that is approved or rejected never changes again.
DecidedTransferIsImmutable ==
  [][\A t \in DOMAIN transfers :
       transfers[t].status # "pending" => transfers'[t] = transfers[t]]_vars

\* C8, the part the code keeps: the quantity, the product and the stores of a
\* transfer never change.
TransferKeepsItsTerms ==
  [][\A t \in DOMAIN transfers :
       /\ transfers'[t].quantity = transfers[t].quantity
       /\ transfers'[t].product = transfers[t].product
       /\ transfers'[t].from_store = transfers[t].from_store
       /\ transfers'[t].to_store = transfers[t].to_store]_vars

\* ---------------------------------------------------------------- C11 - C20
\* The step is the last one of a successful create_sale / process_return.
SaleCommits(p) == pc[p] = "create_sale" /\ outcome'[p] = Ok
ReturnCommits(p) == pc[p] = "process_return" /\ outcome'[p] = Ok

\* The Transaction row the step stores.
Stored == transactions'[Len(transactions')]

\* C11: a successful process_return stores one Transaction of type return, at
\* the store of the original transaction, whose subtotal, vat_amount and
\* total_amount are the negations of what create_sale stores for the same
\* items and whose commission is 0; every line adds its quantity to the row of
\* its product at that store; no return is refused for lack of stock.
ReturnNegatesSale ==
  [][\A p \in Procs :
       /\ ReturnCommits(p) =>
            LET c == call[p]
                sale == TransactionRow("sale", c.user, c.store, SaleTotals(c.user, c.items))
            IN  /\ Len(transactions') = Len(transactions) + 1
                /\ Stored.transaction_type = "return"
                /\ Stored.store = c.store
                /\ Stored.subtotal = - sale.subtotal
                /\ Stored.vat_amount = - sale.vat_amount
                /\ Stored.total_amount = - sale.total_amount
                /\ Stored.commission = 0
                /\ total_commission' = total_commission
                /\ \A k \in Keys :
                     /\ (k \in DOMAIN inventory') = (k \in DOMAIN inventory)
                     /\ QtyAfter(k) = Qty(k) + CartQty(c.items, c.store, k)
       /\ pc[p] = "process_return" => outcome'[p] \notin InsufficientStock]_vars

\* C11 witness: a return of goods priced with three fractional digits is stored
\* with negative amounts next to a sale, and the row holds more than at the start.
ReturnStored ==
  \E i \in DOMAIN transactions :
    /\ transactions[i].transaction_type = "return"
    /\ transactions[i].subtotal < 0
    /\ transactions[i].vat_amount < 0
    /\ transactions[i].total_amount < transactions[i].subtotal
    /\ transactions[1].transaction_type = "sale"
    /\ inventory[<<"p1", "s1">>] > 2 * MaxQty

\* The sum of price x quantity over the lines of a cart, in mills.
RECURSIVE Mills(_)
Mills(items) ==
  IF items = << >> THEN 0 ELSE Head(items).price * Head(items).quantity + Mills(Tail(items))

\* subtotal x VAT_RATE / 100 and total x rate / 100, for a subtotal of m mills
\* and a rate given in 1/100 percent.
VatOf(m) == Rat(m * VAT_RATE, 100000)
TotalOf(m) == Rat(m * (100 + VAT_RATE), 100000)
CommissionOf(m, rate) == RatMul(TotalOf(m), Rat(rate, 10000))

\* Subtotals and rates the two pure functions are evaluated on.
SomeMills == {0, 13, 995, 1250, 10000, 19990, 1000000}
SomeRates == {0, 250, 500, 1275}

\* calculate_vat is subtotal x VAT_RATE / 100, calculate_commission is
\* total x rate / 100; 1000.00 gives 160.00, 1160.00 and, at 5%, 58.00.
FunctionsAreProducts ==
  /\ \A m \in SomeMills : calculate_vat(Rat(m, 1000)) = VatOf(m)
  /\ \A m \in SomeMills, r \in SomeRates :
       calculate_commission(Rat(m, 1000), r) = Rat(m * (r \div 25), 400000)
  /\ DecimalField(calculate_vat(Rat(1000, 1))) = 16000
  /\ DecimalField(RatAdd(Rat(1000, 1), calculate_vat(Rat(1000, 1)))) = 116000
  /\ DecimalField(calculate_commission(Rat(1160, 1), DEFAULT_COMMISSION_RATE)) = 5800

\* C12 (as claimed): the functions are these products, and every sale stores
\* subtotal = sum of price x quantity, vat_amount = subtotal x VAT_RATE / 100,
\* total_amount = subtotal + that, commission = total x rate / 100.
SaleStoresExactAmounts ==
  [][\A p \in Procs :
       SaleCommits(p) =>
         LET m == Mills(call[p].items)
         IN  /\ FunctionsAreProducts
             /\ Rat(Stored.subtotal, 100) = Rat(m, 1000)
             /\ Rat(Stored.vat_amount, 100) = VatOf(m)
             /\ Rat(Stored.total_amount, 100) = TotalOf(m)
             /\ Rat(Stored.commission, 100) = CommissionOf(m, commission_rate(call[p].user))]_vars

\* C12 (amended): the functions are these products, and every sale stores each
\* of the four amounts rounded to the two fractional digits of its column.
SaleStoresRoundedAmounts ==
  [][\A p \in Procs :
       SaleCommits(p) =>
         LET m == Mills(call[p].items)
         IN  /\ FunctionsAreProducts
             /\ Stored.transaction_type = "sale"
             /\ Stored.subtotal = DecimalField(Rat(m, 1000))
             /\ Stored.vat_amount = DecimalField(VatOf(m))
             /\ Stored.total_amount = DecimalField(TotalOf(m))
             /\ Stored.commission =
                  DecimalField(CommissionOf(m, commission_rate(call[p].user)))]_vars

\* C12 witness: a sale of 10.00 is stored with VAT 1.60, total 11.60 and
\* commission 0.58, and a sale of 9.95 with VAT 1.59 (of 1.592).
SalesOfTenAndOfNineNinetyFive ==
  /\ \E i \in DOMAIN transactions :
       /\ transactions[i].transaction_type = "sale"
       /\ transactions[i].subtotal = 1000
       /\ transactions[i].vat_amount = 160
       /\ transactions[i].total_amount = 1160
       /\ transactions[i].commission = 58
  /\ \E i \in DOMAIN transactions :
       /\ transactions[i].transaction_type = "sale"
       /\ transactions[i].subtotal = 995
       /\ transactions[i].vat_amount = 159

\* C13: a successful create_sale takes from each row of its store the sum of
\* the quantities of the lines of that row's product, once; it stores one
\* TransactionItem per line; rows of other products and other stores, and the
\* set of rows, stay as they were.
SaleDecrementsOncePerLine ==
  [][\A p \in Procs :
       SaleCommits(p) =>
         LET c == call[p]
             n == Len(transaction_items)
         IN  /\ \A k \in Keys :
                  /\ (k \in DOMAIN inventory') = (k \in DOMAIN inventory)
                  /\ QtyAfter(k) = Qty(k) - CartQty(c.items, c.store, k)
             /\ Len(transaction_items') = n + Len(c.items)
             /\ \A i \in DOMAIN c.items :
                  /\ transaction_items'[n + i].product = c.items[i].product_id
                  /\ transaction_items'[n + i].quantity = c.items[i].quantity
                  /\ transaction_items'[n + i].transaction = Len(transactions')
             /\ \A i \in 1 .. n : transaction_items'[i] = transaction_items[i]]_vars

\* C13 witness: a sale with two lines of the same product is stored, and the
\* row of that product has been emptied by it.
TwoLinesOfOneProductSold ==
  \E i \in DOMAIN transaction_items, j \in DOMAIN transaction_items :
    /\ i < j
    /\ transaction_items[i].transaction = transaction_items[j].transaction
    /\ transaction_items[i].product = transaction_items[j].product
    /\ transaction_items[i].product = "p1"
    /\ transactions[transaction_items[i].transaction].store = "s1"
    /\ inventory[<<"p1", "s1">>] = 0

\* C14: an adjust_inventory whose delta would take the quantity below 0 fails
\* with NegativeInventory; the quantities, the set of rows (a row the call
\* created is gone), the reorder levels and the audit log are as before.
AdjustBelowZeroAppliesNothing ==
  [][\A p \in Procs, product \in Products, store \in Stores, d \in Deltas, user \in Users :
       (adjust_inventory(p, product, store, d, user) /\ Qty(<<product, store>>) + d < 0) =>
         /\ outcome'[p] \in NegativeInventory
         /\ inventory' = inventory
         /\ reorder_level' = reorder_level
         /\ audit_log' = audit_log]_vars

\* C14 witness: an adjustment was refused as negative, and the only row is the
\* initial one, with its initial quantity, and nothing is logged.
NegativeAdjustmentRefused ==
  /\ \E p \in Procs : outcome[p] \in NegativeInventory
  /\ inventory = (<<"p1", "s1">> :> 1)
  /\ audit_log = << >>

\* C15: a successful adjust_inventory(product, store, delta) leaves the row at
\* its old quantity + delta, 0 standing for the quantity of a row that did not
\* exist; no other row appears, disappears or changes quantity, and no row
\* that existed changes its reorder_level.
AdjustAddsDelta ==
  [][\A p \in Procs, product \in Products, store \in Stores, d \in Deltas, user \in Users :
       (adjust_inventory(p, product, store, d, user) /\ outcome'[p] = Ok) =>
         LET k == <<product, store>>
         IN  /\ k \in DOMAIN inventory'
             /\ inventory'[k] = Qty(k) + d
             /\ \A x \in Keys \ {k} :
                  /\ (x \in DOMAIN inventory') = (x \in DOMAIN inventory)
                  /\ QtyAfter(x) = Qty(x)
             /\ \A x \in DOMAIN inventory : reorder_level'[x] = reorder_level[x]]_vars

\* C15 witness: two adjustments and nothing else succeeded; one made the row
\* of p2 at s2, which holds its delta, the other emptied the row of p1 at s1,
\* which keeps the reorder level it had.
RowCreatedByAdjustment ==
  /\ Len(audit_log) = 2
  /\ \A i \in DOMAIN audit_log : audit_log[i].action = "update"
  /\ <<"p2", "s2">> \in DOMAIN inventory
  /\ inventory[<<"p2", "s2">>] = MaxQty
  /\ inventory[<<"p1", "s1">>] = 0
  /\ reorder_level[<<"p1", "s1">>] = 2 * DEFAULT_REORDER_LEVEL

\* C16: a request_transfer made while the source row holds less than the
\* requested quantity (or does not exist) fails, and creates neither a
\* transfer nor an audit entry.
RequestNeedsStock ==
  [][\A p \in Procs, product \in Products, from_store \in Stores, to_store \in Stores,
        quantity \in Quantities, user \in Users :
       (/\ request_transfer(p, product, from_store, to_store, quantity, user)
        /\ Qty(<<product, from_store>>) < quantity) =>
         /\ outcome'[p] \notin {Ok, "none"}
         /\ transfers' = transfers
         /\ audit_log' = audit_log
         /\ inventory' = inventory]_vars

\* C16 witness: a request was refused for lack of stock at an existing source
\* row, and there is no transfer.
RequestRefused ==
  /\ \E p \in Procs : outcome[p] = ValueErrorInsufficient
  /\ <<"p1", "s1">> \in DOMAIN inventory
  /\ transfers = << >>

\* C17: a successful request_transfer adds one transfer, pending, with the
\* product, the stores, the quantity and the requester of the call and no
\* approver; the transfers there were, every Inventory row and every row lock
\* are as before.
RequestCreatesPending ==
  [][\A p \in Procs, product \in Products, from_store \in Stores, to_store \in Stores,
        quantity \in Quantities, user \in Users :
       (/\ request_transfer(p, product, from_store, to_store, quantity, user)
        /\ outcome'[p] = Ok) =>
         /\ Len(transfers') = Len(transfers) + 1
         /\ LET t == transfers'[Len(transfers')]
            IN  /\ t.status = "pending"
                /\ t.product = product
                /\ t.from_store = from_store
                /\ t.to_store = to_store
                /\ t.quantity = quantity
                /\ t.requested_by = user
                /\ t.approved_by = NoUser
         /\ \A i \in DOMAIN transfers : transfers'[i] = transfers[i]
         /\ inventory' = inventory
         /\ lockedBy' = lockedBy]_vars

\* C17 witness: a transfer of all the stock of p1 at s1 is pending, and the
\* stock is still there.
TransferPendingStockUntouched ==
  /\ Len(transfers) = 1
  /\ transfers[1].status = "pending"
  /\ transfers[1].from_store = "s1"
  /\ transfers[1].quantity = 2
  /\ inventory = (<<"p1", "s1">> :> 2) @@ (<<"p2", "s1">> :> 1)
  /\ Len(audit_log) = 1

\* C18: reject_transfer on a transfer whose stored status is pending succeeds,
\* stores status rejected with the rejecting user and a new timestamp, keeps
\* the other fields of the transfer, adds one audit entry, of action
\* rejection, and changes no Inventory row.
RejectPendingTransfer ==
  [][\A p \in Procs :
       (/\ pc[p] = "reject_transfer"
        /\ pc'[p] # pc[p]
        /\ transfers[call[p].id].status = "pending") =>
         LET id == call[p].id
         IN  /\ outcome'[p] = Ok
             /\ transfers'[id].status = "rejected"
             /\ transfers'[id].approved_by = call[p].user
             /\ transfers'[id].approval_date > transfers[id].approval_date
             /\ transfers'[id].approval_date = clock'
             /\ clock' > clock
             /\ [transfers'[id] EXCEPT !.status = "pending", !.approved_by = NoUser,
                                       !.approval_date = 0] = transfers[id]
             /\ \A i \in DOMAIN transfers \ {id} : transfers'[i] = transfers[i]
             /\ Len(audit_log') = Len(audit_log) + 1
             /\ audit_log'[Len(audit_log')].action = "rejection"
             /\ audit_log'[Len(audit_log')].user = call[p].user
             /\ \A i \in DOMAIN audit_log : audit_log'[i] = audit_log[i]
             /\ inventory' = inventory
             /\ reorder_level' = reorder_level]_vars

\* C18 witness: a transfer was rejected, once, by a user, and the stock is
\* where it was.
TransferRejected ==
  /\ Len(transfers) = 1
  /\ transfers[1].status = "rejected"
  /\ transfers[1].approved_by \in Users
  /\ transfers[1].approval_date > 0
  /\ decided[1] = 1
  /\ inventory = (<<"p1", "s1">> :> 2) @@ (<<"p2", "s1">> :> 1)

\* The line a running create_sale or process_return is at is of a product
\* that has no Inventory row at the store.
AtMissingRow(p) ==
  /\ pc[p] \in {"create_sale", "process_return"}
  /\ ~Visible(p, <<call[p].items[call[p].idx].product_id, call[p].store>>)

AdjustSucceeds ==
  \E p \in Procs, product \in Products, store \in Stores, d \in Deltas, user \in Users :
    adjust_inventory(p, product, store, d, user) /\ outcome'[p] = Ok
RequestSucceeds ==
  \E p \in Procs, product \in Products, from_store \in Stores, to_store \in Stores,
     quantity \in Quantities, user \in Users :
    request_transfer(p, product, from_store, to_store, quantity, user) /\ outcome'[p] = Ok
StepSucceeds(p, at) == pc[p] = at /\ outcome'[p] = Ok

\* The step adds one entry of the action to the audit log and keeps the rest.
Logs(action, model_name) ==
  /\ Len(audit_log') = Len(audit_log) + 1
  /\ audit_log'[Len(audit_log')].action = action
  /\ audit_log'[Len(audit_log')].model_name = model_name
  /\ \A i \in DOMAIN audit_log : audit_log'[i] = audit_log[i]

\* C20: every successful create_sale, process_return, adjust_inventory,
\* request_transfer, approve_transfer and reject_transfer adds exactly one
\* entry to the audit log; every other step, a failing call among them, leaves
\* the log as it is; entries are never changed or removed.
AuditLogTracksSuccesses ==
  [][/\ AdjustSucceeds => Logs("update", "Inventory")
     /\ RequestSucceeds => Logs("transfer", "InventoryTransfer")
     /\ \A p \in Procs :
          /\ StepSucceeds(p, "approve_transfer_credit") => Logs("approval", "InventoryTransfer")
          /\ StepSucceeds(p, "reject_transfer") => Logs("rejection", "InventoryTransfer")
          /\ StepSucceeds(p, "create_sale") => Logs("sale", "Transaction")
          /\ StepSucceeds(p, "process_return") => Logs("sale", "Transaction")
     /\ ~ (\/ AdjustSucceeds
           \/ RequestSucceeds
           \/ \E p \in Procs : pc[p] # "idle" /\ outcome'[p] = Ok)
          => audit_log' = audit_log
     /\ \A i \in DOMAIN audit_log :
          i \in DOMAIN audit_log' /\ audit_log'[i] = audit_log[i]]_vars

\* C20 witness: of three calls that have ended, two succeeded and are logged,
\* one failed and is not.
TwoLoggedOneFailed ==
  /\ calls_left = 0
  /\ \A p \in Procs : pc[p] = "idle"
  /\ \E p \in Procs : outcome[p] \notin {Ok, "none"}
  /\ Len(audit_log) = 2
  /\ Len(transactions) + Len(transfers) >= 1

\* --------------------------------------------------- failing collaborators
\* The audit table or the mail server starts or stops failing.
collaborator_changes(c) ==
  /\ faults' = IF c \in faults THEN faults \ {c} ELSE faults \cup {c}
  /\ UNCHANGED <<inventory, reorder_level, transfers, transactions, transaction_items,
                 audit_log, total_commission, payments, outbox, lockedBy, pc, call,
                 pending, outcome, calls_left, clock, history>>

\* The whole engine, with collaborators that fail and recover at any time.
InitFaults == \E failing \in SUBSET Collaborators :
                InitFaulty((<<"p1", "s1">> :> 1) @@ (<<"p2", "s1">> :> 1),
                           MaxFaultCalls, failing)

NextFaults ==
  \/ Next
  \/ \E c \in Collaborators : collaborator_changes(c)

SpecFaults == InitFaults /\ [][NextFaults]_vars

\* C21: a failure of the audit write never makes a call raise: no call of
\* create_sale, process_return, adjust_inventory, request_transfer,
\* approve_transfer or reject_transfer ends with the error of
\* AuditLog.objects.create.
AuditFailureNeverRaises == \A p \in Procs : outcome[p] # DatabaseError

\* C22: when the mail server fails, an adjust_inventory that ends at a
\* quantity of at most the reorder level, and a request_transfer, that would
\* otherwise succeed still return successfully with their writes committed:
\* the quantity is adjusted, the pending transfer is stored, the audit entry
\* is written, and no mail is delivered.
NotificationFailureIsSwallowed ==
  [][\A p \in Procs, user \in Users, product \in Products, store \in Stores :
       /\ \A d \in Deltas :
            LET k == <<product, store>>
                quantity == get_or_create(inventory, k) + d
            IN  (/\ adjust_inventory(p, product, store, d, user)
                 /\ "mail" \in faults /\ ~AuditLog_fails
                 /\ quantity >= 0
                 /\ is_low_stock(quantity, Levels(inventory @@ (k :> 0))[k]))
                => /\ outcome'[p] = Ok
                   /\ inventory' = (k :> quantity) @@ inventory
                   /\ Len(audit_log') = Len(audit_log) + 1
                   /\ outbox' = outbox
       /\ \A to_store \in Stores, quantity \in Quantities :
            LET k == <<product, store>>
            IN  (/\ request_transfer(p, product, store, to_store, quantity, user)
                 /\ "mail" \in faults /\ ~AuditLog_fails
                 /\ k \in DOMAIN inventory /\ inventory[k] >= quantity)
                => /\ outcome'[p] = Ok
                   /\ transfers' = Append(transfers,
                        InventoryTransfer(product, store, to_store, quantity, user))
                   /\ Len(audit_log') = Len(audit_log) + 1
                   /\ outbox' = outbox]_vars

\* An adjustment and a transfer request have both succeeded and neither of
\* their mails was delivered.
TwoNotificationsLost ==
  /\ Len(audit_log) = 2
  /\ {audit_log[n].action : n \in 1 .. 2} = {"update", "transfer"}
  /\ \A p \in Procs : outcome[p] = Ok
  /\ outbox = 0

\* ------------------------------------------------------------------ payments
\* mpesa/models.py: MpesaPayment, created by initiate_stk_push with
\* status='pending' and completed_at NULL (0 here)
MpesaPayment(transaction, checkout_request_id) ==
  [transaction |-> transaction, checkout_request_id |-> checkout_request_id,
   amount |-> transactions[transaction].total_amount,
   status |-> "pending", completed_at |-> 0]

\* The result codes of an STK callback: success, insufficient funds,
\* cancelled by the user.
ResultCodes == {0, 1, 1032}

\* The rest of the state, which the payment views leave alone.
not_payments == <<inventory, reorder_level, transfers, transactions, transaction_items,
                  audit_log, total_commission, outbox, faults, lockedBy, pc, call,
                  pending, outcome, history>>

\* mpesa/views.py initiate_stk_push: the transaction must exist and have no
\* payment yet, and Safaricom must accept the push (ResponseCode '0'); the
\* amount of the request is the transaction's total
initiate_stk_push(transaction_id, accepted) ==
  /\ calls_left > 0
  /\ calls_left' = calls_left - 1
  /\ IF /\ transaction_id \in DOMAIN transactions
        /\ \A n \in DOMAIN payments : payments[n].transaction # transaction_id
        /\ accepted
     THEN payments' = Append(payments, MpesaPayment(transaction_id, Len(payments) + 1))
     ELSE UNCHANGED payments
  /\ UNCHANGED <<not_payments, clock>>

\* mpesa/views.py lines 187-202: the status a callback stores
callback_status(status, result_code) == IF result_code = 0 THEN "completed" ELSE "failed"

\* mpesa/views.py mpesa_callback
mpesa_callback(checkout_request_id, result_code) ==
  /\ calls_left > 0
  /\ calls_left' = calls_left - 1
  /\ IF \E n \in DOMAIN payments : payments[n].checkout_request_id = checkout_request_id
     THEN LET n == CHOOSE n \in DOMAIN payments :
                     payments[n].checkout_request_id = checkout_request_id
          IN  /\ payments' = [payments EXCEPT ![n] =
                    [@ EXCEPT !.status = callback_status(@, result_code),
                              !.completed_at = clock + 1]]
              /\ clock' = clock + 1
     ELSE UNCHANGED <<payments, clock>>
  /\ UNCHANGED not_payments

\* The engine and the payment views over one database.
InitLedger == InitWith(<<"p1", "s1">> :> 1, MaxCalls)

NextLedger ==
  \/ Next
  \/ \E transaction_id \in 1 .. MaxCalls, accepted \in BOOLEAN :
       initiate_stk_push(transaction_id, accepted)
  \/ \E checkout_request_id \in 1 .. MaxCalls, result_code \in ResultCodes :
       mpesa_callback(checkout_request_id, result_code)

SpecLedger == InitLedger /\ [][NextLedger]_vars

\* Payments of sales: sales of p1 at s1, pushes and callbacks.
InitPayments == InitWith(<<"p1", "s1">> :> MaxQty, MaxPaymentCalls)

NextPayments ==
  \/ \E p \in Procs :
       \/ \E user \in Users, quantity \in Quantities :
            create_sale_begin(p, user, "s1",
              <<[product_id |-> "p1", quantity |-> quantity, price |-> 10000]>>)
       \/ create_sale_item(p)
  \/ \E transaction_id \in 1 .. MaxPaymentCalls, accepted \in BOOLEAN :
       initiate_stk_push(transaction_id, accepted)
  \/ \E checkout_request_id \in 1 .. MaxPaymentCalls, result_code \in ResultCodes :
       mpesa_callback(checkout_request_id, result_code)

SpecPayments == InitPayments /\ [][NextPayments]_vars

\* C23: no operation changes a stored Transaction or TransactionItem: every
\* step of create_sale, process_return, the adjustment and transfer
\* operations and the payment views leaves each existing row as it was, and
\* process_return only adds a row.
TransactionIsImmutable ==
  [][/\ \A n \in DOMAIN transactions :
          n \in DOMAIN transactions' /\ transactions'[n] = transactions[n]
     /\ \A n \in DOMAIN transaction_items :
          n \in DOMAIN transaction_items' /\ transaction_items'[n] = transaction_items[n]]_vars

\* A sale has been returned and its payment has been pushed.
SaleReturnedAndPaymentPushed ==
  /\ Len(transactions) = 2
  /\ transactions[1].transaction_type = "sale"
  /\ transactions[2].transaction_type = "return"
  /\ \E n \in DOMAIN payments : payments[n].transaction = 1

\* C26: the status of a payment only ever leaves pending: no step changes
\* the status of a payment that is completed, failed or cancelled, and a
\* callback with result code 0 for a pending payment sets completed and
\* stamps completed_at.
PaymentStatusOnlyLeavesPending ==
  [][\A n \in DOMAIN payments :
       /\ payments[n].status # "pending" => payments'[n].status = payments[n].status
       /\ \A result_code \in ResultCodes :
            (mpesa_callback(payments[n].checkout_request_id, result_code)
               /\ payments[n].status = "pending" /\ result_code = 0)
            => payments'[n].status = "completed" /\ payments'[n].completed_at = clock']_vars

\* C24: no step of process_return changes a user's total_commission, and
\* across sales and returns no step makes a user's total_commission smaller.
CommissionNeverDecreases ==
  [][/\ \A p \in Procs :
          pc[p] = "process_return" /\ pc'[p] = "idle" => total_commission' = total_commission
     /\ \A u \in Users : total_commission'[u] >= total_commission[u]]_vars

\* ------------------------------------------------------------------- reports
\* services_inventory.py lines 212-221: the filter is built with
\* models.F('reorder_level'), and the module imports no name models (lines
\* 4-11): evaluating the argument raises NameError before any query is made.
\* store is None for the call without a store.
get_low_stock_items(p, store) ==
  /\ Start(p)
  /\ Return(p, NameError)
  /\ UNCHANGED <<inventory, reorder_level, transfers, transactions, transaction_items,
                 audit_log, total_commission, outbox, clock, history>>

\* Adjustments and reports of the low stock.
InitReports == InitWith(<<"p1", "s1">> :> 1, MaxReportCalls)

NextReports ==
  \E p \in Procs :
    \/ \E product \in Products, store \in Stores, d \in Deltas, user \in Users :
         adjust_inventory(p, product, store, d, user)
    \/ \E store \in Stores \cup {"None"} : get_low_stock_items(p, store)

SpecReports == InitReports /\ [][NextReports]_vars

\* C25: get_low_stock_items returns the rows of low stock: no call of it
\* ends with an exception.
LowStockItemsAreReturned == \A p \in Procs : outcome[p] # NameError

\* --------------------------------------------------------------------- views
\* The views of pos_app/views.py run in autocommit mode: there is no
\* transaction.atomic and no select_for_update in them, each
\* Inventory.objects.get reads what is committed, and each save() is an
\* UPDATE of the row with the values of the object in memory, committed at
\* once.  A save waits while an engine transaction holds the row.

\* The rest of the state, which a view that writes inventory leaves alone.
view_frame == <<transfers, transactions, transaction_items, audit_log, total_commission,
                outbox, clock, earned, decided, refused, moved>>

\* A step of a view that goes on to its next statement.
view_goes_on(p, next, c) ==
  /\ pc' = [pc EXCEPT ![p] = next]
  /\ call' = [call EXCEPT ![p] = c]
  /\ outcome' = [outcome EXCEPT ![p] = "none"]
  /\ UNCHANGED <<lockedBy, pending, payments, faults>>

\* inventory.save(): the UPDATE of the row, and the delta the request meant
inventory_save(k, quantity, delta) ==
  /\ inventory' = Write(inventory, k, quantity)
  /\ reorder_level' = Levels(inventory')
  /\ applied' = [applied EXCEPT ![k] = @ + delta]

\* views.py lines 123-147: the request is parsed; request.user is the user
\* the session middleware loaded
process_sale_begin(p, user, store, items) ==
  /\ Start(p)
  /\ view_goes_on(p, "process_sale_get",
       [op |-> "process_sale", user |-> user, store |-> store, items |-> items, idx |-> 1,
        user_total_commission |-> total_commission[user], inventory_quantity |-> 0])
  /\ UNCHANGED <<tables, clock, history>>

\* lines 151-163, one turn of the loop up to the check of the stock
process_sale_get(p) ==
  LET c == call[p]
      item == c.items[c.idx]
      k == <<item.product_id, c.store>>
  IN  /\ pc[p] = "process_sale_get"
      /\ UNCHANGED <<calls_left, clock, history>>
      /\ IF item.product_id \notin Products
         THEN Return(p, ProductDoesNotExist) /\ UNCHANGED tables
         ELSE IF item.quantity <= 0
         THEN Return(p, InvalidQuantity) /\ UNCHANGED tables
         ELSE IF k \notin DOMAIN inventory
         THEN Return(p, InventoryDoesNotExist) /\ UNCHANGED tables
         ELSE IF inventory[k] < item.quantity
         THEN Return(p, InsufficientInventory) /\ UNCHANGED tables
         ELSE /\ view_goes_on(p, "process_sale_save",
                              [c EXCEPT !.inventory_quantity = inventory[k]])
              /\ UNCHANGED tables

\* lines 177-179, inventory.quantity -= quantity; inventory.save(); after the
\* last line, lines 188-222: the Transaction, its items and the commission
process_sale_save(p) ==
  LET c == call[p]
      item == c.items[c.idx]
      k == <<item.product_id, c.store>>
      t == SaleTotals(c.user, c.items)
      db == Writes(DB, [inv |-> NoRows, txn |-> <<TransactionRow("sale", c.user, c.store, t)>>,
                        items |-> [n \in DOMAIN c.items |-> TransactionItemRow(c.items[n])]])
  IN  /\ pc[p] = "process_sale_save"
      /\ ~Blocked(p, k)
      /\ inventory_save(k, c.inventory_quantity - item.quantity, -item.quantity)
      /\ UNCHANGED <<calls_left, transfers, audit_log, outbox, clock, decided, refused, moved>>
      /\ IF c.idx < Len(c.items)
         THEN /\ view_goes_on(p, "process_sale_get", [c EXCEPT !.idx = @ + 1])
              /\ UNCHANGED <<transactions, transaction_items, total_commission, earned>>
         ELSE /\ Return(p, Ok)
              /\ transactions' = db.transactions
              /\ transaction_items' = db.transaction_items
              /\ total_commission' = [total_commission EXCEPT ![c.user] =
                   DecimalField(RatAdd(Rat(c.user_total_commission, 100), t.commission))]
              /\ earned' = [earned EXCEPT ![c.user] = @ + DecimalField(t.commission)]

\* lines 261-265: Inventory.objects.get_or_create(product, store,
\* defaults={'quantity': 0, 'reorder_level': reorder_level})
add_inventory_get(p, product, store, quantity) ==
  LET k == <<product, store>>
  IN  /\ Start(p)
      /\ view_goes_on(p, "add_inventory_save",
           [op |-> "add_inventory", k |-> k, quantity |-> quantity,
            inventory_quantity |-> get_or_create(inventory, k)])
      /\ inventory' = IF k \in DOMAIN inventory THEN inventory ELSE Write(inventory, k, 0)
      /\ reorder_level' = Levels(inventory')
      /\ UNCHANGED <<view_frame, applied, payments, outbox, faults>>

\* lines 267-273: inventory.quantity += quantity (or = quantity for the row
\* just created); inventory.save()
add_inventory_save(p) ==
  LET c == call[p]
  IN  /\ pc[p] = "add_inventory_save"
      /\ ~Blocked(p, c.k)
      /\ inventory_save(c.k, c.inventory_quantity + c.quantity, c.quantity)
      /\ Return(p, Ok)
      /\ UNCHANGED <<calls_left, view_frame>>

\* lines 503-505: Inventory.objects.get(product_id=product_id, store=store)
\* for one counted product
stock_take_get(p, product, store, counted_quantity) ==
  LET k == <<product, store>>
  IN  /\ Start(p)
      /\ UNCHANGED <<tables, clock, history>>
      /\ IF k \notin DOMAIN inventory
         THEN Return(p, InventoryNotFoundMessage)
         ELSE view_goes_on(p, "stock_take_save",
                [op |-> "stock_take", k |-> k, counted_quantity |-> counted_quantity,
                 inventory_quantity |-> inventory[k]])

\* lines 515-519: difference = counted_quantity - inventory.quantity;
\* inventory.quantity = counted_quantity; inventory.save()
stock_take_save(p) ==
  LET c == call[p]
      difference == c.counted_quantity - c.inventory_quantity
  IN  /\ pc[p] = "stock_take_save"
      /\ ~Blocked(p, c.k)
      /\ inventory_save(c.k, c.counted_quantity, difference)
      /\ Return(p, Ok)
      /\ UNCHANGED <<calls_left, view_frame>>

\* views.py lines 707-722: get_object_or_404, the status check, the read of
\* the source row and the stock check
views_approve_transfer_get(p, transfer_id, user) ==
  LET transfer == transfers[transfer_id]
      k == <<transfer.product, transfer.from_store>>
  IN  /\ Start(p)
      /\ transfer_id \in DOMAIN transfers
      /\ UNCHANGED <<tables, clock, history>>
      /\ IF transfer.status # "pending"
         THEN Return(p, TransferNotPendingMessage)
         ELSE IF k \notin DOMAIN inventory
         THEN Return(p, SourceNotFoundMessage)
         ELSE IF inventory[k] < transfer.quantity
         THEN Return(p, SourceInsufficientMessage)
         ELSE view_goes_on(p, "views_approve_transfer_debit",
                [op |-> "views.approve_transfer", id |-> transfer_id, transfer |-> transfer,
                 user |-> user, inventory_quantity |-> inventory[k]])

\* lines 725-732: from_inventory.quantity -= transfer.quantity;
\* from_inventory.save(); get_or_create of the destination row
views_approve_transfer_debit(p) ==
  LET c == call[p]
      k == <<c.transfer.product, c.transfer.from_store>>
      to == <<c.transfer.product, c.transfer.to_store>>
      debited == Write(inventory, k, c.inventory_quantity - c.transfer.quantity)
  IN  /\ pc[p] = "views_approve_transfer_debit"
      /\ ~Blocked(p, k)
      /\ inventory' = IF to \in DOMAIN debited THEN debited ELSE Write(debited, to, 0)
      /\ reorder_level' = Levels(inventory')
      /\ applied' = [applied EXCEPT ![k] = @ - c.transfer.quantity]
      /\ view_goes_on(p, "views_approve_transfer_credit",
                      [c EXCEPT !.inventory_quantity = get_or_create(debited, to)])
      /\ UNCHANGED <<calls_left, view_frame>>

\* lines 733-740: to_inventory.quantity += transfer.quantity;
\* to_inventory.save(); the transfer is saved as approved
views_approve_transfer_credit(p) ==
  LET c == call[p]
      to == <<c.transfer.product, c.transfer.to_store>>
  IN  /\ pc[p] = "views_approve_transfer_credit"
      /\ ~Blocked(p, to)
      /\ inventory_save(to, credit(c.inventory_quantity, c.transfer.quantity),
                        c.transfer.quantity)
      /\ transfers' = [transfers EXCEPT ![c.id] =
           [c.transfer EXCEPT !.status = "approved", !.approved_by = c.user,
                              !.approval_date = clock + 1]]
      /\ clock' = clock + 1
      /\ decided' = [decided EXCEPT ![c.id] = @ + 1]
      /\ moved' = [moved EXCEPT ![c.id] = @ + 1]
      /\ Return(p, Ok)
      /\ UNCHANGED <<calls_left, transactions, transaction_items, audit_log,
                     total_commission, outbox, earned, refused>>

\* The carts a browser can post: known and unknown products, quantities from 0.
ViewItems == [product_id : Products \cup {"p9"}, quantity : 0 .. MaxQty, price : Prices]
ViewCarts == Carts(ViewItems)

\* The sale view alone: two handlers, one unit of each product at s1.
InitViewSale == InitWith((<<"p1", "s1">> :> 1) @@ (<<"p2", "s1">> :> 1), MaxViewSaleCalls)

NextViewSale ==
  \E p \in Procs :
    \/ \E user \in Users, store \in Stores, items \in ViewCarts :
         process_sale_begin(p, user, store, items)
    \/ process_sale_get(p)
    \/ process_sale_save(p)

SpecViewSale == InitViewSale /\ [][NextViewSale]_vars

\* The error responses of views.process_sale.
SaleErrors == {InvalidQuantity, InsufficientInventory, ProductDoesNotExist,
               InventoryDoesNotExist}

\* The lines of its cart whose decrement a running sale request has saved.
LinesSaved(p) == call[p].idx - 1

\* C27: when views.process_sale returns an error response, the request has
\* changed no Inventory quantity and has stored no Transaction.
ViewSaleIsAllOrNothing ==
  [][\A p \in Procs :
       (pc[p] = "process_sale_get" /\ outcome'[p] \in SaleErrors)
       => /\ LinesSaved(p) = 0
          /\ transactions' = transactions]_vars

\* Every view that writes inventory, with the engine's adjustment and
\* transfer request: two units of p1 at s1.
InitViews == InitWith(<<"p1", "s1">> :> MaxQty, MaxViewCalls)

NextViews ==
  \E p \in Procs :
    \/ \E product \in Products, store \in Stores, d \in Deltas, user \in Users :
         adjust_inventory(p, product, store, d, user)
    \/ \E product \in Products, from_store \in Stores, to_store \in Stores,
          quantity \in Quantities, user \in Users :
         request_transfer(p, product, from_store, to_store, quantity, user)
    \/ \E user \in Users, store \in Stores, item \in Items(Products, Prices) :
         process_sale_begin(p, user, store, <<item>>)
    \/ process_sale_get(p)
    \/ process_sale_save(p)
    \/ \E product \in Products, store \in Stores, quantity \in Quantities :
         add_inventory_get(p, product, store, quantity)
    \/ add_inventory_save(p)
    \/ \E product \in Products, store \in Stores, counted_quantity \in 0 .. MaxQty :
         stock_take_get(p, product, store, counted_quantity)
    \/ stock_take_save(p)
    \/ \E transfer_id \in 1 .. MaxTransfers, user \in Users :
         views_approve_transfer_get(p, transfer_id, user)
    \/ views_approve_transfer_debit(p)
    \/ views_approve_transfer_credit(p)

SpecViews == InitViews /\ [][NextViews]_vars

\* C28: the inventory writes of the views are serializable per row: every
\* row holds its initial quantity plus the changes the requests meant to make
\* (no update is lost), no quantity is negative, and the stock of a transfer
\* is moved at most once.
ViewWritesAreSerializable ==
  /\ (\A p \in Procs : pc[p] = "idle") => \A k \in Keys : Qty(k) = applied[k]
  /\ \A k \in DOMAIN inventory : inventory[k] >= 0
  /\ \A t \in DOMAIN moved : moved[t] <= 1

\* C29: in every reachable state the quantity of a transfer has been debited
\* from its source row and credited to its destination row once if the
\* stored status of the transfer is approved, and not at all if it is pending
\* or rejected.
StockMovedIffApproved ==
  \A t \in DOMAIN transfers :
    moved[t] = IF transfers[t].status = "approved" THEN 1 ELSE 0

\* ------------------------------------------------------ opposite lock orders
\* The two orders of a cart of one unit of each product.
OppositeCarts ==
  {c \in Carts(Items(Products, Prices)) :
     /\ Len(c) = 2
     /\ c[1].product_id # c[2].product_id
     /\ \A n \in DOMAIN c : c[n].quantity = 1}

\* The cart of the sale that was made before the behaviour starts.
SoldCart == <<[product_id |-> "p1", quantity |-> 1, price |-> 10000],
              [product_id |-> "p2", quantity |-> 1, price |-> 10000]>>

\* Two transfers of p1 wait for their decision, one from s1 to s2 and one
\* from s2 to s1; p1 and p2 are in stock at s1 and p1 at s2; one sale of a
\* unit of each product at s1 is stored.
InitDeadlock ==
  /\ inventory = (<<"p1", "s1">> :> MaxQty) @@ (<<"p2", "s1">> :> MaxQty)
                   @@ (<<"p1", "s2">> :> MaxQty)
  /\ reorder_level = [k \in DOMAIN inventory |-> DEFAULT_REORDER_LEVEL]
  /\ transfers = <<InventoryTransfer("p1", "s1", "s2", 1, "u1"),
                   InventoryTransfer("p1", "s2", "s1", 1, "u1")>>
  /\ transactions = <<TransactionRow("sale", "u1", "s1", SaleTotals("u1", SoldCart))>>
  /\ transaction_items = [n \in DOMAIN SoldCart |->
                            [transaction |-> 1] @@ TransactionItemRow(SoldCart[n])]
  /\ audit_log = <<AuditLog("u1", "sale", "Transaction")>>
  /\ total_commission = [u \in Users |-> transactions[1].commission]
  /\ lockedBy = [k \in Keys |-> NoProc]
  /\ pc = [p \in Procs |-> "idle"]
  /\ call = [p \in Procs |-> NoCall]
  /\ pending = [p \in Procs |-> NoPending]
  /\ outcome = [p \in Procs |-> "none"]
  /\ calls_left = MaxDeadlockCalls
  /\ clock = 0
  /\ applied = [k \in Keys |-> IF k \in DOMAIN inventory THEN inventory[k] ELSE 0]
  /\ earned = total_commission
  /\ decided = [t \in DOMAIN transfers |-> 0]
  /\ refused = {}
  /\ moved = [t \in DOMAIN transfers |-> 0]
  /\ payments = << >>
  /\ outbox = 0
  /\ faults = {}

\* What a handler does once its call has started.
Step(p) ==
  \/ create_sale_item(p)
  \/ process_return_item(p)
  \/ approve_transfer_debit(p)
  \/ approve_transfer_credit(p)
  \/ deadlock_detected(p)

NextDeadlock ==
  \E p \in Procs :
    \/ \E user \in Users, items \in OppositeCarts : create_sale_begin(p, user, "s1", items)
    \/ \E t \in 1 .. MaxDeadlockCalls, user \in Users, items \in OppositeCarts :
         process_return_begin(p, t, user, items)
    \/ \E id \in DOMAIN transfers, user \in Users : approve_transfer_begin(p, id, user)
    \/ Step(p)

\* A handler whose statement can run runs, and the database looks for
\* deadlocks after deadlock_timeout.
SpecDeadlock ==
  InitDeadlock /\ [][NextDeadlock]_vars /\ \A p \in Procs : WF_vars(Step(p))

====
